---- MODULE Spec2Model ----
(***************************************************************************)
(* Model of the Starterator JSON checker (src/json_data).                  *)
(*                                                                         *)
(*   SpecCore  : recompute_conservation / compare_conservation             *)
(*               (verify_json.py) applied to bounded datasets.             *)
(*   SpecMain  : the batch driver verify_json.main, one loop iteration     *)
(*               per step.                                                 *)
(*   SpecCache : sequences of download_pham_json calls, in the copy of     *)
(*               verify_json.py and in the copy of GUI.py, on one cache.   *)
(*                                                                         *)
(* Python values are modelled as follows.                                  *)
(*   - an optional value (None, a missing dict key, an omitted argument)   *)
(*     is a sequence of length at most one: <<>> or <<v>>;                 *)
(*   - a str is a sequence of one-character strings;                       *)
(*   - a dict is a function whose DOMAIN is its key set;                   *)
(*   - a float is an exact rational with denominator Scale (the spec calls *)
(*     the division real-valued; binary rounding is outside the model);    *)
(*   - a call yields a record whose kind is "return" or "raise".           *)
(***************************************************************************)
EXTENDS Integers, Sequences, FiniteSets, TLC

VARIABLES
    data,       \* core: the dataset dict handed to the core functions
    tolArg,     \* core: the tol argument of the last compare call (<<>> = omitted)
    pc,         \* position of the running script
    result,     \* core: outcome of the last core call, with its locals
    file,         \* main: pham_ids.txt, <<>> when it does not exist, else <<lines>>
    phams_amount, \* main: the module global phams_amount (<<>> = None)
    loaded,       \* main: what load_pham_ids returned
    pham_ids,     \* main: the local pham_ids, the working set once selected
    sampled_ids,  \* main: the local sampled_ids (<<>> = not bound)
    idx,          \* main: index of the next identifier of the for loop
    total,        \* main: the local total
    bad,          \* main: the local bad
    outcome,      \* main: how main ended, and whether the summary was printed
    cache,        \* the files of output_dir: file name -> content
    requests,     \* number of requests.get calls issued
    calls,        \* cache: number of download_pham_json calls made
    lastCall      \* cache: the last download_pham_json call and its outcome

coreVars == <<data, tolArg, result>>
mainVars == <<file, phams_amount, loaded, pham_ids, sampled_ids, idx, total, bad, outcome>>
cacheVars == <<cache, requests, calls, lastCall>>
vars == <<data, tolArg, pc, result, file, phams_amount, loaded, pham_ids,
          sampled_ids, idx, total, bad, outcome, cache, requests, calls, lastCall>>

----------------------------------------------------------------------------
(* Bounds of the model *)

MaxGenes == 2
MaxStarts == 2
MaxMember == 2
MaxLines == 3
MaxAmount == 2
MaxCalls == 3

\* phams_amount: int | None = 50
DefaultAmount == 50

\* 9 and 10 are the smallest positions whose decimal strings order
\* differently ("10" < "9") from their values.
Positions == {9, 10}

\* One unit of a modelled float is 1/Scale; Scale is a multiple of every
\* member count and gene count of the model and of one million (for 1e-6).
Scale == 60 * 1000000

None == <<>>
Some(v) == <<v>>

----------------------------------------------------------------------------
(* Python built-ins used by the code *)

DigitChars == <<"0", "1", "2", "3", "4", "5", "6", "7", "8", "9">>

RECURSIVE Str(_)
\* str(n) for a non-negative int
Str(n) == IF n < 10 THEN <<DigitChars[n + 1]>>
          ELSE Str(n \div 10) \o <<DigitChars[(n % 10) + 1]>>

DigitVal(c) == CHOOSE d \in 0..9 : DigitChars[d + 1] = c

RECURSIVE IntOf(_)
\* int(s) for a string of decimal digits
IntOf(s) == IF Len(s) = 0 THEN 0
            ELSE 10 * IntOf(SubSeq(s, 1, Len(s) - 1)) + DigitVal(s[Len(s)])

\* s < t in Python's str ordering (lexicographic by character)
RECURSIVE StrLess(_, _)
StrLess(s, t) ==
    IF Len(t) = 0 THEN FALSE
    ELSE IF Len(s) = 0 THEN TRUE
    ELSE IF s[1] = t[1] THEN StrLess(Tail(s), Tail(t))
    ELSE DigitVal(s[1]) < DigitVal(t[1])

\* true division of ints, count / member_count (member_count # 0)
PyDiv(c, m) == IF m > 0 THEN (c * Scale) \div m ELSE -((c * Scale) \div (-m))

Abs(x) == IF x < 0 THEN -x ELSE x

\* d.get(k)
DictGet(d, k) == IF k \in DOMAIN d THEN Some(d[k]) ELSE None

EmptyDict == [k \in {} |-> 0]

----------------------------------------------------------------------------
(* verify_json.py: conservation calculations *)

Return(t) == [kind |-> "return", exc |-> "", table |-> t]
Raise(e) == [kind |-> "raise", exc |-> e, table |-> EmptyDict]

\* present_counts[start_num] = present_counts.get(start_num, 0) + 1
AddStart(counts, s) ==
    [p \in (DOMAIN counts) \cup {s} |->
        (IF p \in DOMAIN counts THEN counts[p] ELSE 0) + (IF p = s THEN 1 ELSE 0)]

\* a wrong inner loop: each gene counts a start once, however often it lists it
RECURSIVE CountGeneOnce(_, _)
CountGeneOnce(counts, starts) ==
    IF Len(starts) = 0 THEN counts
    ELSE LET rest == SubSeq(starts, 1, Len(starts) - 1)
             s == starts[Len(starts)]
         IN IF \E i \in 1..Len(rest) : rest[i] = s
            THEN CountGeneOnce(counts, rest)
            ELSE AddStart(CountGeneOnce(counts, rest), s)

\* for start_num in gene["AvailableStarts"]: ...
RECURSIVE CountGene(_, _)
CountGene(counts, starts) ==
    IF Len(starts) = 0 THEN counts
    ELSE CountGene(AddStart(counts, Head(starts)), Tail(starts))

\* for gene in data["Genes"]: ...
RECURSIVE CountGenes(_, _)
CountGenes(counts, genes) ==
    IF Len(genes) = 0 THEN counts
    ELSE CountGenes(CountGene(counts, Head(genes)), Tail(genes))

\* {str(start_num): present_counts[start_num] / member_count for ...}
ToFractions(present_counts, member_count) ==
    IF DOMAIN present_counts = {} THEN Return(EmptyDict)
    ELSE IF member_count = 0 THEN Raise("ZeroDivisionError")
    ELSE Return([k \in {Str(p) : p \in DOMAIN present_counts} |->
                    PyDiv(present_counts[IntOf(k)], member_count)])

\* a wrong divisor: the number of genes listed instead of MemberCount
recompute_over_listed_genes(d) ==
    IF d.MemberCount = None THEN Raise("KeyError")
    ELSE IF d.Genes = None THEN Raise("KeyError")
    ELSE ToFractions(CountGenes(EmptyDict, d.Genes[1]), Len(d.Genes[1]))

recompute_conservation(d) ==
    IF d.MemberCount = None THEN Raise("KeyError")
    ELSE IF d.Genes = None THEN Raise("KeyError")
    ELSE ToFractions(CountGenes(EmptyDict, d.Genes[1]), d.MemberCount[1])

\* tol: float = 1e-6
DefaultTol == Scale \div 1000000

\* a wrong ordering: sorted(...) without key=int, i.e. by str comparison
RECURSIVE SortKeysAsStr(_)
SortKeysAsStr(S) ==
    IF S = {} THEN <<>>
    ELSE LET m == CHOOSE k \in S : \A j \in S : j = k \/ StrLess(k, j)
         IN <<m>> \o SortKeysAsStr(S \ {m})

\* sorted(S, key=int); the keys of the model are canonical decimal strings,
\* so no two of them share an int value and the order is determined
RECURSIVE SortKeys(_)
SortKeys(S) ==
    IF S = {} THEN <<>>
    ELSE LET m == CHOOSE k \in S : \A j \in S : IntOf(k) <= IntOf(j)
         IN <<m>> \o SortKeys(S \ {m})

\* a wrong comparison: >= instead of >
ExceedsOrEqual(jc, rc, tol) == Abs(jc - rc) >= tol

\* abs(jc - rc) > tol
Exceeds(jc, rc, tol) == Abs(jc - rc) > tol

Mismatch(k, issue, jc, rc) ==
    [start |-> k, issue |-> issue, json |-> jc, recomputed |-> rc]

\* a wrong loop body: a key missing on one side is passed over silently
CompareKeySkipMissing(k, json_cons, recomputed, tol) ==
    LET jc == DictGet(json_cons, k)
        rc == DictGet(recomputed, k)
    IN IF jc = None \/ rc = None THEN <<>>
       ELSE IF Exceeds(jc[1], rc[1], tol)
            THEN <<Mismatch(k, "value_mismatch", jc, rc)>>
            ELSE <<>>

\* the body of "for k in all_keys": the mismatches appended for k
CompareKey(k, json_cons, recomputed, tol) ==
    LET jc == DictGet(json_cons, k)
        rc == DictGet(recomputed, k)
    IN IF jc = None \/ rc = None
       THEN <<Mismatch(k, "missing_in_one_side", jc, rc)>>
       ELSE IF Exceeds(jc[1], rc[1], tol)
            THEN <<Mismatch(k, "value_mismatch", jc, rc)>>
            ELSE <<>>

RECURSIVE CompareKeys(_, _, _, _)
CompareKeys(keys, json_cons, recomputed, tol) ==
    IF Len(keys) = 0 THEN <<>>
    ELSE CompareKey(Head(keys), json_cons, recomputed, tol)
         \o CompareKeys(Tail(keys), json_cons, recomputed, tol)

\* The outcome of compare_conservation(d, tol), with the locals json_cons and
\* recomputed it computed on the way.
CompareResult(kind, exc, name, mismatches, json_cons, recomputed) ==
    [kind |-> kind, exc |-> exc, name |-> name, mismatches |-> mismatches,
     json_cons |-> json_cons, recomputed |-> recomputed]

compare_conservation(d, tol) ==
    IF d.Conservation = None
    THEN CompareResult("raise", "KeyError", d.Name, <<>>, EmptyDict, EmptyDict)
    ELSE LET json_cons == d.Conservation[1]
             rr == recompute_conservation(d)
         IN IF rr.kind = "raise"
            THEN CompareResult("raise", rr.exc, d.Name, <<>>, json_cons, EmptyDict)
            ELSE LET all_keys == SortKeys((DOMAIN json_cons) \cup (DOMAIN rr.table))
                 IN CompareResult("return", "", d.Name,
                        CompareKeys(all_keys, json_cons, rr.table, tol),
                        json_cons, rr.table)

----------------------------------------------------------------------------
(* Inputs of the core functions *)

SeqsUpTo(S, n) == UNION {[1..m -> S] : m \in 0..n}

StartLists == SeqsUpTo(Positions, MaxStarts)
GeneLists == SeqsUpTo(StartLists, MaxGenes)
MemberCounts == (-1)..MaxMember

Half == Scale \div 2
One == Scale
StoredVals == {Half, One, Half + DefaultTol, Half + DefaultTol + 1}
StoredKeys == {Str(p) : p \in Positions}
StoredTables == UNION {[K -> StoredVals] : K \in SUBSET StoredKeys}

PhamName == Some(<<"P">>)

Dataset(mc, genes, cons) ==
    [Name |-> PhamName, MemberCount |-> mc, Genes |-> genes, Conservation |-> cons]

\* the well-formed documents of section 6, and documents lacking one field
SampleGenes == <<<<9>>, <<9, 10>>>>
SampleTable == [k \in StoredKeys |-> Half]
Datasets ==
    {Dataset(Some(mc), Some(g), Some(t)) :
        mc \in MemberCounts, g \in GeneLists, t \in StoredTables}
    \cup {Dataset(None, Some(g), Some(SampleTable)) : g \in {<<>>, SampleGenes}}
    \cup {Dataset(Some(mc), None, Some(SampleTable)) : mc \in MemberCounts}
    \cup {Dataset(Some(mc), Some(SampleGenes), None) : mc \in MemberCounts}

\* tol omitted (the default applies), or given
TolArgs == {None, Some(0), Some(Half), Some(-1)}

TolOf(arg) == IF arg = None THEN DefaultTol ELSE arg[1]

----------------------------------------------------------------------------
(* SpecCore: one call of a core function on a dataset *)

NoResult == [fn |-> "none", out |-> Raise("")]
NoOutcome == [kind |-> "none", exc |-> "", summary |-> FALSE]
NoCall == [fn |-> "none", pham_id |-> 0, force |-> FALSE, cache_before |-> EmptyDict,
           requests_before |-> 0, out |-> [kind |-> "none", exc |-> "", path |-> None]]

IdleCore == data = Dataset(None, None, None) /\ tolArg = None /\ result = NoResult
IdleMain ==
    /\ file = None /\ phams_amount = None /\ loaded = <<>> /\ pham_ids = <<>>
    /\ sampled_ids = None /\ idx = 0 /\ total = 0 /\ bad = 0 /\ outcome = NoOutcome
IdleCache == cache = EmptyDict /\ requests = 0 /\ calls = 0 /\ lastCall = NoCall

InitCore ==
    /\ data \in Datasets
    /\ tolArg = None
    /\ pc = "start"
    /\ result = NoResult
    /\ IdleMain
    /\ IdleCache

\* recompute_conservation(data)
Recompute ==
    /\ pc = "start"
    /\ result' = [fn |-> "recompute", out |-> recompute_conservation(data)]
    /\ pc' = "called"
    /\ UNCHANGED <<data, tolArg, mainVars, cacheVars>>

\* compare_conservation(data) and compare_conservation(data, tol)
Compare ==
    /\ pc = "start"
    /\ \E arg \in TolArgs :
        /\ tolArg' = arg
        /\ result' = [fn |-> "compare", out |-> compare_conservation(data, TolOf(arg))]
    /\ pc' = "called"
    /\ UNCHANGED <<data, mainVars, cacheVars>>

NextCore == Recompute \/ Compare

SpecCore == InitCore /\ [][NextCore]_vars

----------------------------------------------------------------------------
(* Properties of the core functions, checked under SpecCore *)

Recomputed == pc = "called" /\ result.fn = "recompute"
Compared == pc = "called" /\ result.fn = "compare"
ComparedOk == Compared /\ result.out.kind = "return"

\* the tolerance in force: the argument, or 1e-6 when it is omitted
TolInForce == IF tolArg = None THEN Scale \div 1000000 ELSE tolArg[1]

\* the places <<g, i>> of the gene list at which position p is listed
OccurrencesOf(genes, p) ==
    {ix \in UNION {{<<g, i>> : i \in 1..Len(genes[g])} : g \in 1..Len(genes)} :
        genes[ix[1]][ix[2]] = p}

Occurring(genes) == {p \in Positions : OccurrencesOf(genes, p) # {}}

\* t maps the decimal string of every occurring position, and nothing else,
\* to (number of occurrences) / mc
IsOccurrenceTable(t, genes, mc) ==
    /\ DOMAIN t = {Str(p) : p \in Occurring(genes)}
    /\ \A p \in Occurring(genes) :
          t[Str(p)] * mc = Cardinality(OccurrencesOf(genes, p)) * Scale

MismatchesFor(k) ==
    {i \in DOMAIN result.out.mismatches : result.out.mismatches[i].start = k}

\* C1: compare_conservation emits, for every key of the union of the stored
\* and the recomputed keys, exactly one missing_in_one_side mismatch (with the
\* present side's value and None for the other) when a side lacks the key,
\* exactly one value_mismatch with both values when the two values differ by
\* more than tol, and nothing otherwise; it emits nothing for other keys.
C1_Classification ==
    ComparedOk =>
        LET stored == data.Conservation[1]
            rec == result.out.recomputed
            ms == result.out.mismatches
            tol == TolInForce
            Only(k, m) == /\ Cardinality(MismatchesFor(k)) = 1
                          /\ \A i \in MismatchesFor(k) : ms[i] = m
        IN /\ \A i \in DOMAIN ms : ms[i].start \in (DOMAIN stored) \cup (DOMAIN rec)
           /\ \A k \in (DOMAIN stored) \cup (DOMAIN rec) :
                IF k \notin DOMAIN stored
                THEN Only(k, [start |-> k, issue |-> "missing_in_one_side",
                              json |-> None, recomputed |-> Some(rec[k])])
                ELSE IF k \notin DOMAIN rec
                THEN Only(k, [start |-> k, issue |-> "missing_in_one_side",
                              json |-> Some(stored[k]), recomputed |-> None])
                ELSE IF stored[k] - rec[k] > tol \/ rec[k] - stored[k] > tol
                THEN Only(k, [start |-> k, issue |-> "value_mismatch",
                              json |-> Some(stored[k]), recomputed |-> Some(rec[k])])
                ELSE MismatchesFor(k) = {}

\* a run of compare in which all three outcomes occur: "9" is stored only,
\* or recomputed only, and "10" differs on the two sides or agrees
C1_Witness ==
    /\ ComparedOk
    /\ Len(result.out.mismatches) = 2
    /\ result.out.mismatches[1].issue = "missing_in_one_side"
    /\ result.out.mismatches[1].json = None
    /\ result.out.mismatches[2].issue = "value_mismatch"

C3_AscendingNumeric ==
    ComparedOk =>
        \A i, j \in DOMAIN result.out.mismatches :
            i < j => IntOf(result.out.mismatches[i].start)
                        < IntOf(result.out.mismatches[j].start)

\* a mismatch for "9" followed by one for "10"
C3_Witness ==
    /\ ComparedOk
    /\ Len(result.out.mismatches) = 2
    /\ result.out.mismatches[1].start = <<"9">>
    /\ result.out.mismatches[2].start = <<"1", "0">>

\* C4: for a key on both sides a mismatch is reported exactly when the absolute
\* difference is greater than the tolerance in force (the argument, 1e-6 when
\* omitted); a difference equal to the tolerance is not reported.
C4_StrictTolerance ==
    ComparedOk =>
        LET stored == data.Conservation[1]
            rec == result.out.recomputed
            Diff(k) == IF stored[k] >= rec[k] THEN stored[k] - rec[k]
                       ELSE rec[k] - stored[k]
        IN \A k \in (DOMAIN stored) \cap (DOMAIN rec) :
              /\ (Diff(k) = TolInForce => MismatchesFor(k) = {})
              /\ (Diff(k) > TolInForce =>
                    \E i \in MismatchesFor(k) :
                        result.out.mismatches[i].issue = "value_mismatch")

\* with the default tolerance: "9" differs by exactly 1e-6 and is not reported,
\* "10" differs by 1e-6 plus one unit and is reported
C4_Witness ==
    /\ ComparedOk
    /\ tolArg = None
    /\ DOMAIN result.out.recomputed = {<<"9">>, <<"1", "0">>}
    /\ DOMAIN data.Conservation[1] = {<<"9">>, <<"1", "0">>}
    /\ data.Conservation[1][<<"9">>] - result.out.recomputed[<<"9">>]
          = Scale \div 1000000
    /\ data.Conservation[1][<<"1", "0">>] - result.out.recomputed[<<"1", "0">>]
          = (Scale \div 1000000) + 1
    /\ MismatchesFor(<<"9">>) = {}
    /\ MismatchesFor(<<"1", "0">>) # {}

\* C5: recompute_conservation signals an integrity error, and returns no
\* table, whenever MemberCount is zero or negative or a required field is
\* absent.  (Any exception is accepted here as the integrity error.)
C5_IntegrityFaultSignalled ==
    (/\ Recomputed
     /\ \/ data.MemberCount = None
        \/ data.Genes = None
        \/ data.MemberCount[1] <= 0) =>
        result.out.kind = "raise"

\* C9: when the stored table is the table of occurrences / MemberCount of the
\* dataset's own genes, MemberCount > 0 and tol >= 0, compare_conservation
\* returns no mismatch.
C9_Agreement ==
    (/\ Compared
     /\ data.MemberCount # None
     /\ data.Genes # None
     /\ data.Conservation # None
     /\ data.MemberCount[1] > 0
     /\ IsOccurrenceTable(data.Conservation[1], data.Genes[1], data.MemberCount[1])
     /\ TolInForce >= 0) =>
        /\ result.out.kind = "return"
        /\ result.out.mismatches = <<>>

\* Scenario A of the spec on positions 9 and 10, compared with tol = 0
C9_Witness ==
    /\ Compared
    /\ tolArg = Some(0)
    /\ data.MemberCount = Some(2)
    /\ data.Genes = Some(<<<<9>>, <<9, 10>>>>)
    /\ data.Conservation = Some([k \in StoredKeys |-> IF k = <<"9">> THEN One ELSE Half])
    /\ result.out.kind = "return"
    /\ result.out.mismatches = <<>>

----------------------------------------------------------------------------
(* download_pham_json: the copies of verify_json.py and of GUI.py *)

\* typed Python values, for the + of verify_json.py line 59
PyInt(n) == [type |-> "int", val |-> n]
PyStr(t) == [type |-> "str", val |-> t]

\* a + b: defined on two ints and on two strs, TypeError on an int and a str
PyAdd(a, b) ==
    IF a.type = "int" /\ b.type = "int"
    THEN [kind |-> "return", exc |-> "", value |-> PyInt(a.val + b.val)]
    ELSE IF a.type = "str" /\ b.type = "str"
    THEN [kind |-> "return", exc |-> "", value |-> PyStr(a.val \o b.val)]
    ELSE [kind |-> "raise", exc |-> "TypeError", value |-> PyStr(<<>>)]

\* str(v)
PyStrOf(v) == IF v.type = "str" THEN v.val ELSE Str(v.val)

DotJson == <<".", "j", "s", "o", "n">>

\* the content of a file or of a reply: a JSON document holding a dataset, or
\* text that is not JSON
Doc(d) == [valid |-> TRUE, data |-> d]
NotJson == [valid |-> FALSE, data |-> Dataset(None, None, None)]

ScenarioGenes == Some(<<<<9>>, <<9, 10>>>>)
AgreeData ==
    Dataset(Some(2), ScenarioGenes,
            Some([k \in StoredKeys |-> IF k = <<"9">> THEN One ELSE Half]))
MismatchData == Dataset(Some(2), ScenarioGenes, Some([k \in StoredKeys |-> Half]))
ZeroMemberData == Dataset(Some(0), ScenarioGenes, Some([k \in StoredKeys |-> Half]))
NoGenesData == Dataset(Some(2), None, Some([k \in StoredKeys |-> Half]))

\* what requests.get does: raise RequestException, or give a reply
Reply(status, text) == [kind |-> "reply", status |-> status, text |-> text]
Responses ==
    {[kind |-> "exception", status |-> 0, text |-> NotJson],
     Reply(404, NotJson), Reply(200, NotJson),
     Reply(200, Doc(AgreeData)), Reply(200, Doc(MismatchData))}

WriteText(files, path, text) ==
    [n \in (DOMAIN files) \cup {path} |-> IF n = path THEN text ELSE files[n]]

\* outcome of a download call: returned path (<<>> = None) or exception, the
\* files of output_dir after it, and the number of requests it issued
DownloadOut(kind, exc, path, files, requested) ==
    [kind |-> kind, exc |-> exc, path |-> path, files |-> files, requested |-> requested]

\* GUI.py download_pham_json(pham_id, force)
gui_download_pham_json(pham_id, force, files, resp) ==
    LET json_path == Str(pham_id) \o DotJson
    IN IF json_path \in DOMAIN files /\ ~force
       THEN DownloadOut("return", "", Some(json_path), files, 0)
       ELSE IF resp.kind = "exception"
       THEN DownloadOut("return", "", None, files, 1)
       ELSE IF resp.status # 200
       THEN DownloadOut("return", "", None, files, 1)
       ELSE IF ~resp.text.valid
       THEN DownloadOut("return", "", None, files, 1)
       ELSE DownloadOut("return", "", Some(json_path),
                        WriteText(files, json_path, resp.text), 1)

\* verify_json.py download_pham_json(pham_id, force): line 59 adds the int
\* pham_id and the str ".json"; the name local_path of lines 62, 82-84 is
\* bound nowhere
verify_download_pham_json(pham_id, force, files, resp) ==
    LET sum == PyAdd(PyInt(pham_id), PyStr(DotJson))
    IN IF sum.kind = "raise"
       THEN DownloadOut("raise", sum.exc, None, files, 0)
       ELSE LET downloaded_json_path == PyStrOf(sum.value)
            IN IF downloaded_json_path \in DOMAIN files /\ ~force
               THEN DownloadOut("raise", "NameError", None, files, 0)
               ELSE IF resp.kind = "exception"
               THEN DownloadOut("return", "", None, files, 1)
               ELSE IF resp.status # 200
               THEN DownloadOut("return", "", None, files, 1)
               ELSE IF ~resp.text.valid
               THEN DownloadOut("return", "", None, files, 1)
               ELSE DownloadOut("raise", "NameError", None, files, 1)

----------------------------------------------------------------------------
(* SpecCache: download calls on one output_dir *)

CacheIds == {7, 10}

InitCache ==
    /\ pc = "idle"
    /\ IdleCore
    /\ IdleMain
    /\ IdleCache

CallRecord(fn, pham_id, force, out) ==
    [fn |-> fn, pham_id |-> pham_id, force |-> force, cache_before |-> cache,
     requests_before |-> requests,
     out |-> [kind |-> out.kind, exc |-> out.exc, path |-> out.path]]

\* a call of GUI.download_pham_json
GuiDownload ==
    /\ calls < MaxCalls
    /\ \E pham_id \in CacheIds, force \in BOOLEAN, resp \in Responses :
        LET out == gui_download_pham_json(pham_id, force, cache, resp)
        IN /\ cache' = out.files
           /\ requests' = requests + out.requested
           /\ lastCall' = CallRecord("GUI", pham_id, force, out)
    /\ calls' = calls + 1
    /\ UNCHANGED <<pc, coreVars, mainVars>>

\* a call of verify_json.download_pham_json
VerifyDownload ==
    /\ calls < MaxCalls
    /\ \E pham_id \in CacheIds, force \in BOOLEAN, resp \in Responses :
        LET out == verify_download_pham_json(pham_id, force, cache, resp)
        IN /\ cache' = out.files
           /\ requests' = requests + out.requested
           /\ lastCall' = CallRecord("verify_json", pham_id, force, out)
    /\ calls' = calls + 1
    /\ UNCHANGED <<pc, coreVars, mainVars>>

NextCache == GuiDownload \/ VerifyDownload

SpecCache == InitCache /\ [][NextCache]_vars

\* C10: a call download_pham_json(pham_id, force=False) made while the cache
\* holds the file of pham_id returns that file's path, issues no request and
\* leaves the cache as it was - in the copy of verify_json.py and in the copy
\* of GUI.py, after any earlier calls.
C10_CachedCallReturnsPath ==
    (/\ calls > 0
     /\ ~lastCall.force
     /\ (Str(lastCall.pham_id) \o DotJson) \in DOMAIN lastCall.cache_before) =>
        /\ lastCall.out.kind = "return"
        /\ lastCall.out.path = Some(Str(lastCall.pham_id) \o DotJson)
        /\ requests = lastCall.requests_before
        /\ cache = lastCall.cache_before

----------------------------------------------------------------------------
(* verify_json.py: load_pham_ids and main *)

IsDigit(c) == \E d \in 0..9 : DigitChars[d + 1] = c

\* line.strip()
RECURSIVE Strip(_)
Strip(line) ==
    IF Len(line) = 0 THEN line
    ELSE IF Head(line) = " " THEN Strip(Tail(line))
    ELSE IF line[Len(line)] = " " THEN Strip(SubSeq(line, 1, Len(line) - 1))
    ELSE line

\* int(line): <<n>>, or <<>> for ValueError (lines of digits, blanks, # and letters)
ParseInt(line) ==
    IF Len(line) > 0 /\ \A i \in 1..Len(line) : IsDigit(line[i])
    THEN Some(IntOf(line)) ELSE None

\* the ids appended by the loop of lines 29-36
RECURSIVE ReadIds(_)
ReadIds(lines) ==
    IF Len(lines) = 0 THEN <<>>
    ELSE LET line == Strip(Head(lines))
         IN IF Len(line) = 0 \/ Head(line) = "#" THEN ReadIds(Tail(lines))
            ELSE ParseInt(line) \o ReadIds(Tail(lines))

\* sorted(S) of a set of ints
RECURSIVE SortedSet(_)
SortedSet(S) ==
    IF S = {} THEN <<>>
    ELSE LET m == CHOOSE x \in S : \A y \in S : x <= y
         IN <<m>> \o SortedSet(S \ {m})

load_pham_ids(f) ==
    IF f = None THEN <<>>
    ELSE LET ids == ReadIds(f[1])
         IN SortedSet({ids[i] : i \in 1..Len(ids)})

\* a sample left in the order random.sample drew it
Unsorted(list) == list

\* list.sort() of a list of ints
RECURSIVE SortList(_)
SortList(list) ==
    IF Len(list) = 0 THEN <<>>
    ELSE LET i == CHOOSE i \in 1..Len(list) : \A j \in 1..Len(list) : list[i] <= list[j]
         IN <<list[i]>> \o SortList(SubSeq(list, 1, i - 1) \o SubSeq(list, i + 1, Len(list)))

\* the lists random.sample(population, k) can return: k elements drawn at
\* distinct places of the population, in any order
Samples(population, k) ==
    {[n \in 1..k |-> population[pick[n]]] :
        pick \in {q \in [1..k -> 1..Len(population)] :
                    \A a, b \in 1..k : a # b => q[a] # q[b]}}

\* load_pham_json(path)
load_pham_json(files, path) ==
    IF files[path].valid
    THEN [kind |-> "return", exc |-> "", data |-> files[path].data]
    ELSE [kind |-> "raise", exc |-> "JSONDecodeError", data |-> files[path].data]

FileLines == {<<>>, <<"#", "7">>, <<"x">>, <<"7">>, <<" ", "9">>, <<"1", "0">>}
Files == {None} \cup {Some(ls) : ls \in SeqsUpTo(FileLines, MaxLines)}
Amounts == {None, Some(DefaultAmount)} \cup {Some(n) : n \in (-1)..MaxAmount}

\* output_dir before the run: the documents of 7, 9 and 10 cached and sound,
\* but for one file that may be missing, damaged or hold a faulty dataset
FileIds == {7, 9, 10}
CachedTexts ==
    {NotJson, Doc(MismatchData), Doc(ZeroMemberData), Doc(NoGenesData)}
SoundCache == [n \in {Str(i) \o DotJson : i \in FileIds} |-> Doc(AgreeData)]
InitialCaches ==
    {SoundCache, EmptyDict}
    \cup {[n \in (DOMAIN SoundCache) \ {Str(i) \o DotJson} |-> SoundCache[n]] : i \in {7, 10}}
    \cup {WriteText(SoundCache, Str(i) \o DotJson, t) : i \in {7, 10}, t \in CachedTexts}

InitMain ==
    /\ pc = "main"
    /\ IdleCore
    /\ file \in Files
    /\ phams_amount \in Amounts
    /\ loaded = <<>> /\ pham_ids = <<>> /\ sampled_ids = None
    /\ idx = 0 /\ total = 0 /\ bad = 0
    /\ outcome = NoOutcome
    /\ cache \in InitialCaches
    /\ requests = 0 /\ calls = 0 /\ lastCall = NoCall

Ended(kind, exc, summary) == [kind |-> kind, exc |-> exc, summary |-> summary]

\* main, lines 166-189: load the ids, select the working set
MainStart ==
    /\ pc = "main"
    /\ LET ids == load_pham_ids(file)
       IN /\ loaded' = ids
          /\ IF Len(ids) = 0
             THEN /\ pc' = "done"
                  /\ outcome' = Ended("return", "", FALSE)
                  /\ UNCHANGED <<pham_ids, sampled_ids, idx>>
             ELSE /\ pc' = "loop"
                  /\ idx' = 1
                  /\ UNCHANGED outcome
                  /\ IF phams_amount # None /\ phams_amount[1] > 0
                        /\ Len(ids) > phams_amount[1]
                     THEN \E drawn \in Samples(ids, phams_amount[1]) :
                            /\ sampled_ids' = Some(SortList(drawn))
                            /\ pham_ids' = SortList(drawn)
                     ELSE /\ pham_ids' = ids
                          /\ UNCHANGED sampled_ids
    /\ UNCHANGED <<file, phams_amount, total, bad, coreVars, cacheVars>>

\* main, lines 191-219: one iteration of the for loop, or, after the last
\* one, the summary and print(sampled_ids)
MainStep ==
    /\ pc = "loop"
    /\ IF idx <= Len(pham_ids)
       THEN \E resp \in Responses :
            LET pham_id == pham_ids[idx]
                dl == verify_download_pham_json(pham_id, FALSE, cache, resp)
                loadedDoc == load_pham_json(dl.files, dl.path[1])
                cmp == compare_conservation(loadedDoc.data, DefaultTol)
                Continue == /\ idx' = idx + 1 /\ UNCHANGED <<pc, outcome>>
                Abort(exc) == /\ pc' = "done"
                              /\ outcome' = Ended("raise", exc, FALSE)
                              /\ UNCHANGED idx
            IN /\ total' = total + 1
               /\ cache' = dl.files
               /\ requests' = requests + dl.requested
               /\ IF dl.kind = "raise" THEN Abort(dl.exc) /\ UNCHANGED bad
                  ELSE IF dl.path = None THEN Continue /\ UNCHANGED bad
                  ELSE IF loadedDoc.kind = "raise" THEN Continue /\ UNCHANGED bad
                  ELSE IF cmp.kind = "raise" THEN Abort(cmp.exc) /\ UNCHANGED bad
                  ELSE /\ Continue
                       /\ bad' = IF cmp.mismatches # <<>> THEN bad + 1 ELSE bad
       ELSE /\ pc' = "done"
            /\ outcome' = IF sampled_ids = None
                          THEN Ended("raise", "UnboundLocalError", TRUE)
                          ELSE Ended("return", "", TRUE)
            /\ UNCHANGED <<idx, total, bad, cache, requests>>
    /\ UNCHANGED <<file, phams_amount, loaded, pham_ids, sampled_ids, calls, lastCall,
                   coreVars>>

NextMain == MainStart \/ MainStep

SpecMain == InitMain /\ [][NextMain]_vars

----------------------------------------------------------------------------
(* Properties of the batch driver, checked under SpecMain *)

IsAscending(list) == \A i, j \in 1..Len(list) : i < j => list[i] < list[j]

\* C8: the working set main iterates over is strictly ascending (hence free of
\* duplicates), made of loaded identifiers, of exactly phams_amount elements
\* when 0 < phams_amount < number of loaded identifiers, and otherwise the
\* whole loaded list.
C8_WorkingSet ==
    pc # "main" =>
        /\ IsAscending(pham_ids)
        /\ \A i \in 1..Len(pham_ids) : \E j \in 1..Len(loaded) : pham_ids[i] = loaded[j]
        /\ IF phams_amount # None /\ phams_amount[1] > 0
              /\ phams_amount[1] < Len(loaded)
           THEN Len(pham_ids) = phams_amount[1]
           ELSE pham_ids = loaded

\* two of the three loaded identifiers were drawn
C8_Witness ==
    /\ pc = "loop"
    /\ phams_amount = Some(2)
    /\ loaded = <<7, 9, 10>>
    /\ pham_ids = <<7, 10>>
    /\ sampled_ids = Some(<<7, 10>>)

FileOf(id) == Str(id) \o DotJson

\* the identifier has no sound document in the cache: it must be fetched, or
\* its file is not JSON
NeedsFetchOrDamaged(id) ==
    FileOf(id) \notin DOMAIN cache \/ ~cache[FileOf(id)].valid

\* the cached document of the identifier is a dataset with an integrity fault
HasIntegrityFault(id) ==
    /\ FileOf(id) \in DOMAIN cache
    /\ cache[FileOf(id)].valid
    /\ LET d == cache[FileOf(id)].data
       IN d.MemberCount = None \/ d.Genes = None \/ d.MemberCount[1] <= 0

AllProcessed ==
    /\ outcome.summary
    /\ idx = Len(pham_ids) + 1
    /\ total = Len(pham_ids)

\* C6: a fetch, cache or format failure for one identifier does not end the
\* batch: main goes through every identifier of the working set and reaches
\* the summary.
C6_FetchFailureNotFatal ==
    (/\ pc = "done"
     /\ \E i \in 1..Len(pham_ids) : NeedsFetchOrDamaged(pham_ids[i])) =>
        AllProcessed

\* C7: a dataset with an integrity fault does not end the batch: main goes
\* through every identifier of the working set and reaches the summary.
C7_IntegrityFaultNotFatal ==
    (/\ pc = "done"
     /\ \E i \in 1..Len(pham_ids) : HasIntegrityFault(pham_ids[i])) =>
        AllProcessed

\* C11: main, having loaded identifiers, ends by returning after the summary
\* was printed - whether a sample was drawn, phams_amount is at least the
\* number of loaded identifiers, or phams_amount is None or not positive.
C11_MainReturnsAfterSummary ==
    (pc = "done" /\ Len(loaded) > 0) =>
        /\ outcome.kind = "return"
        /\ outcome.summary


====
